---- MODULE Spec2Model ----
(***************************************************************************)
(* A model of src/mine.rs of ore-cli: the mining loop Miner::mine, the     *)
(* parallel nonce search Miner::find_hash_par with its worker threads, and *)
(* the helpers get_cutoff, should_reset and find_bus.                      *)
(*                                                                         *)
(* Machine integers are scaled: i64 is the range I64_MIN..I64_MAX, u64 is  *)
(* 0..U64_MAX with U64_MAX = 2*I64_MAX+1, u32 is 0..U32_MAX.  Every        *)
(* arithmetic operation of the source is modelled with the behaviour Rust  *)
(* gives it at the edge of its type: saturating_* clamps, `as` wraps, and  *)
(* a plain `+` either panics (overflow checks on, the dev profile) or      *)
(* wraps (overflow checks off, the release profile).                       *)
(***************************************************************************)
EXTENDS Integers, Sequences, FiniteSets, TLC

(***************************************************************************)
(* Bounds of the model.                                                    *)
(***************************************************************************)
\* i64::MAX, scaled.
I64_MAX == 99
\* u32::MAX, scaled.
U32_MAX == 3
\* Largest cutoff_time (seconds) a search call is started with in the harness.
MaxCutoff == 1

(***************************************************************************)
(* Program constants.                                                      *)
(***************************************************************************)
\* mine.rs:169  `nonce % 100 == 0`
CHECKPOINT == 100
\* mine.rs:243  `.saturating_add(60)`
FIXED_WINDOW == 60

I64_MIN == -I64_MAX - 1
U64_MAX == 2 * I64_MAX + 1
U64 == 0..U64_MAX
U32 == 0..U32_MAX

(***************************************************************************)
(* Integer helpers with the semantics of the Rust operations used.         *)
(***************************************************************************)
Max(a, b) == IF a >= b THEN a ELSE b

ClampI64(x) == IF x > I64_MAX THEN I64_MAX ELSE IF x < I64_MIN THEN I64_MIN ELSE x

\* i64::saturating_add / i64::saturating_sub
I64SaturatingAdd(a, b) == ClampI64(a + b)
I64SaturatingSub(a, b) == ClampI64(a - b)

\* `x as i64` for x: u64 (two's complement reinterpretation)
U64AsI64(x) == IF x > I64_MAX THEN x - (U64_MAX + 1) ELSE x

\* `x as u64` for x: i64
I64AsU64(x) == IF x < 0 THEN x + (U64_MAX + 1) ELSE x

\* u64::saturating_div (panics on a zero divisor; never called with one,
\* because the closure that evaluates it only runs for i in 0..threads)
U64SaturatingDiv(a, b) == a \div b

\* u64::saturating_mul
U64SaturatingMul(a, b) == IF a * b > U64_MAX THEN U64_MAX ELSE a * b

\* u64::to_le_bytes: eight bytes, least significant first
RECURSIVE LeBytes(_, _)
LeBytes(n, k) == IF k = 0 THEN <<>> ELSE <<n % 256>> \o LeBytes(n \div 256, k - 1)

to_le_bytes(n) == LeBytes(n, 8)

\* u64::from_le_bytes, as the hash function reads the nonce back
RECURSIVE FromLeBytes(_)
FromLeBytes(b) == IF b = <<>> THEN 0 ELSE Head(b) + 256 * FromLeBytes(Tail(b))

(***************************************************************************)
(* The hash function drillx::hash_with_memory, an external collaborator:   *)
(* a fixed mapping (challenge, nonce) -> failure or a hash.  `oracle` is   *)
(* the mapping's table, indexed by (challenge + nonce) modulo its length.  *)
(* A Result is the empty sequence (Err) or a one-element sequence (Ok).    *)
(***************************************************************************)
\* Err(_) of hash_with_memory, as a table entry
Fail == -1

Outcomes == {Fail} \cup U32

\* Hash::default(): the all-zero digest d and hash h
DefaultHash == [d |-> <<>>, h |-> <<>>]

\* Solution::new(digest, nonce bytes)
SolutionNew(d, n) == [d |-> d, n |-> n]

VARIABLES
    \* ---- the arguments and locals of find_hash_par ----
    proof,                  \* Proof { challenge, last_hash_at }
    cutoff_time,            \* u64
    threads,                \* u64
    min,                    \* u32
    best,                   \* u32
    found_best_solution,    \* the AtomicBool shared by the workers of one call
    worker,                 \* worker thread i |-> its position and locals
    joined,                 \* handles joined so far by `for h in handles`
    best_nonce,             \* the coordinator's running best (lines 196-198)
    best_difficulty,
    best_hash,
    cpc,                    \* position of the find_hash_par call
    ret,                    \* value returned by find_hash_par
    \* ---- environment ----
    now,                    \* the monotonic clock read by Instant, in seconds
    buses,                  \* the accounts at BUS_ADDRESSES, as the rpc sees them
    oracle,                 \* the hash function's table
    overflow_checks,        \* the build: are integer overflow checks compiled in
    hashed,                 \* history: worker i |-> the nonces it has hashed
    \* ---- the locals of mine ----
    lpc,                    \* position of the mining loop
    buffer_time,            \* args.buffer_time
    last_hash_at,
    num_hash_created,
    num_hash_best_difficulty_created,
    best_difficulty_created,
    config,                 \* Config { last_reset_at, top_balance }
    ixs,                    \* the instruction batch being built
    compute_budget,
    \* ---- environment of mine ----
    clock,                  \* the last clock.unix_timestamp read by get_clock
    submitted,              \* history: number of calls of send_and_confirm
    submit_outcome,         \* history: what the last send_and_confirm returned
    bus_query               \* history: what find_bus got from the rpc and rand

\* The arguments, as passed by mine on every call (args.threads,
\* args.min_difficulty, args.best_difficulty), the build and the environment.
argVars == <<threads, min, best, buffer_time, oracle, overflow_checks, buses>>

\* What find_hash_par and its threads own.
searchVars == <<found_best_solution, worker, joined, best_nonce,
                best_difficulty, best_hash, now, hashed>>

\* What mine owns.
loopVars == <<lpc, last_hash_at, num_hash_created,
              num_hash_best_difficulty_created, best_difficulty_created,
              config, ixs, compute_budget, clock, submitted, submit_outcome,
              bus_query>>

vars == <<argVars, searchVars, loopVars, proof, cutoff_time, cpc, ret>>

Workers == 0..(threads - 1)

\* drillx::hash_with_memory(&mut memory, &challenge, &nonce_bytes)
hash_with_memory(challenge, nonce_bytes) ==
    LET o == oracle[((challenge + FromLeBytes(nonce_bytes)) % Len(oracle)) + 1]
    IN  IF o = Fail THEN <<>>
        ELSE <<[d |-> <<challenge, nonce_bytes>>, h |-> <<challenge, nonce_bytes>>]>>

\* Hash::difficulty(), for a hash the function produced
Difficulty(hx) == oracle[((hx.h[1] + FromLeBytes(hx.h[2])) % Len(oracle)) + 1]

\* Mutant: the worker index is used as the start nonce.
StartNonce_Index(i) == U64SaturatingMul(1, i)

\* line 129: u64::MAX.saturating_div(threads).saturating_mul(i)
StartNonce(i) == U64SaturatingMul(U64SaturatingDiv(U64_MAX, threads), i)

\* timer.elapsed().as_secs()
Elapsed(i) == now - worker[i].timer

\* lines 128-132: the locals of a worker thread as it starts
NewWorker(i) ==
    [pc |-> "loop", timer |-> now, nonce |-> StartNonce(i),
     best_nonce |-> StartNonce(i), best_difficulty |-> 0,
     best_hash |-> DefaultHash, wake |-> 0]

\* A spawned thread that has not run its first statement yet.
SpawnedWorker ==
    [pc |-> "start", timer |-> 0, nonce |-> 0, best_nonce |-> 0,
     best_difficulty |-> 0, best_hash |-> DefaultHash, wake |-> 0]

\* Mutant: best_nonce is assigned outside of `if let Ok(hx)`.
UpdateBest_FailMovesNonce(w, r) ==
    IF r # <<>> /\ Difficulty(r[1]) > w.best_difficulty
    THEN [w EXCEPT !.best_nonce = w.nonce,
                   !.best_difficulty = Difficulty(r[1]),
                   !.best_hash = r[1]]
    ELSE IF r = <<>> THEN [w EXCEPT !.best_nonce = w.nonce] ELSE w

\* Mutant: `ge` for `gt` in the comparison with the local best.
UpdateBest_Ge(w, r) ==
    IF r # <<>> /\ Difficulty(r[1]) >= w.best_difficulty
    THEN [w EXCEPT !.best_nonce = w.nonce,
                   !.best_difficulty = Difficulty(r[1]),
                   !.best_hash = r[1]]
    ELSE w

\* lines 150-161: the worker's locals after hashing its current nonce
UpdateBest(w, r) ==
    IF r # <<>> /\ Difficulty(r[1]) > w.best_difficulty
    THEN [w EXCEPT !.best_nonce = w.nonce,
                   !.best_difficulty = Difficulty(r[1]),
                   !.best_hash = r[1]]
    ELSE w

\* Mutant: `break` for `continue` once the target is met.
ContinueLoop_Break(w) == [w EXCEPT !.pc = "done"]

\* line 165: continue, without incrementing the nonce
ContinueLoop(w) == [w EXCEPT !.pc = "loop"]

\* Mutant: `ge` for `gt` in the comparison with the target.
TargetMet_AtTarget(w) == w.best_difficulty >= best

\* line 163: best_difficulty.gt(&best)
TargetMet(w) == w.best_difficulty > best

\* Mutant: `ge` for `gt` in the comparison with min.
CutoffBreak_AtMin(w, elapsed) ==
    /\ w.nonce % CHECKPOINT = 0
    /\ elapsed >= cutoff_time
    /\ w.best_difficulty >= min

\* Mutant: the checkpoint does not look at the timer.
CutoffBreak_NoTimer(w, elapsed) ==
    /\ w.nonce % CHECKPOINT = 0
    /\ w.best_difficulty > min

\* Mutant: the worker leaves at the cutoff whatever its best difficulty.
CutoffBreak_NoMin(w, elapsed) ==
    /\ w.nonce % CHECKPOINT = 0
    /\ elapsed >= cutoff_time

\* lines 169-171: the checkpoint at which a worker may leave the loop
CutoffBreak(w, elapsed) ==
    /\ w.nonce % CHECKPOINT = 0
    /\ elapsed >= cutoff_time
    /\ w.best_difficulty > min

\* Mutant: the result of the comparison is stored, instead of `true` when it
\* holds.
FlagAfterHash_StoreComparison(w, elapsed, flag) ==
    TargetMet(w) \/ CutoffBreak(w, elapsed)

\* Mutant: the checkpoint breaks without storing the flag (line 172 missing).
FlagAfterHash_NoStoreAtCutoff(w, elapsed, flag) ==
    IF TargetMet(w) THEN TRUE ELSE flag

\* lines 163-175: the flag after the target check and the checkpoint of one
\* iteration; both stores write `true`, and nothing else writes the flag
FlagAfterHash(w, elapsed, flag) ==
    IF TargetMet(w) THEN TRUE
    ELSE IF CutoffBreak(w, elapsed) THEN TRUE
    ELSE flag

\* Mutant: the handle is read without waiting for the thread to finish.
Joinable_NoWait(w) == w.pc # "start"

\* line 200: h.join() returns once the thread has ended: Ok with the tuple it
\* returned, or Err when it panicked
Joinable(w) == w.pc \in {"done", "panicked"}

\* Mutant: `>=` for `>`, so that a later equal outcome replaces an earlier one.
ReduceStep_LastWins(acc, out) ==
    IF out.best_difficulty >= acc.best_difficulty
    THEN [best_nonce |-> out.best_nonce,
          best_difficulty |-> out.best_difficulty,
          best_hash |-> out.best_hash]
    ELSE acc

\* Mutant: best_nonce is assigned outside of `if difficulty > best_difficulty`.
ReduceStep_NonceAlways(acc, out) ==
    IF out.best_difficulty > acc.best_difficulty
    THEN [best_nonce |-> out.best_nonce,
          best_difficulty |-> out.best_difficulty,
          best_hash |-> out.best_hash]
    ELSE [acc EXCEPT !.best_nonce = out.best_nonce]

\* lines 200-206: one handle joined and folded into the running best
ReduceStep(acc, out) ==
    IF out.best_difficulty > acc.best_difficulty
    THEN [best_nonce |-> out.best_nonce,
          best_difficulty |-> out.best_difficulty,
          best_hash |-> out.best_hash]
    ELSE acc

\* line 216: best_difficulty.gt(&((min + best)/2)), given the value of min + best
ShouldIncreaseFee(bd, sum) == bd > sum \div 2

\* line 216: the tuple find_hash_par returns
ReturnValue(bn, bd, bh, sum) ==
    [solution |-> SolutionNew(bh.d, to_le_bytes(bn)),
     should_increase_fee |-> ShouldIncreaseFee(bd, sum),
     best_difficulty |-> bd]

(***************************************************************************)
(* find_hash_par, lines 106-217.                                           *)
(***************************************************************************)
\* lines 114-198: the flag is created, the threads are spawned, the
\* coordinator's running best is initialised
Spawn ==
    /\ cpc = "call"
    /\ found_best_solution' = FALSE
    /\ worker' = [i \in Workers |-> SpawnedWorker]
    /\ hashed' = [i \in Workers |-> {}]
    /\ joined' = 0
    /\ best_nonce' = 0
    /\ best_difficulty' = 0
    /\ best_hash' = DefaultHash
    /\ now' = 0
    /\ cpc' = "join"
    /\ UNCHANGED <<argVars, loopVars, proof, cutoff_time, ret>>

\* lines 128-132: a thread starts running
WorkerStart(i) ==
    /\ cpc = "join"
    /\ worker[i].pc = "start"
    /\ worker' = [worker EXCEPT ![i] = NewWorker(i)]
    /\ UNCHANGED <<argVars, loopVars, proof, cutoff_time, cpc, ret,
                   found_best_solution, joined, best_nonce, best_difficulty,
                   best_hash, now, hashed>>

\* lines 133-147: the top of the loop; the load of the flag and the stop branch
CheckStop(i) ==
    /\ cpc = "join"
    /\ worker[i].pc = "loop"
    /\ IF found_best_solution
       THEN IF Elapsed(i) >= cutoff_time
            THEN worker' = [worker EXCEPT ![i].pc = "done"]
            ELSE worker' = [worker EXCEPT ![i].pc = "sleep", ![i].wake = now + 1]
       ELSE worker' = [worker EXCEPT ![i].pc = "hash"]
    /\ UNCHANGED <<argVars, loopVars, proof, cutoff_time, cpc, ret,
                   found_best_solution, joined, best_nonce, best_difficulty,
                   best_hash, now, hashed>>

\* line 144: std::thread::sleep(1 s) returns, `continue`
WakeUp(i) ==
    /\ cpc = "join"
    /\ worker[i].pc = "sleep"
    /\ now >= worker[i].wake
    /\ worker' = [worker EXCEPT ![i].pc = "loop", ![i].wake = 0]
    /\ UNCHANGED <<argVars, loopVars, proof, cutoff_time, cpc, ret,
                   found_best_solution, joined, best_nonce, best_difficulty,
                   best_hash, now, hashed>>

\* line 185: `nonce += 1` on a u64.  At u64::MAX the addition overflows: the
\* thread panics in a build with overflow checks, and the nonce wraps to 0 in
\* a build without them.
IncrementNonce(w) ==
    IF w.nonce < U64_MAX THEN [w EXCEPT !.pc = "loop", !.nonce = w.nonce + 1]
    ELSE IF overflow_checks THEN [w EXCEPT !.pc = "panicked"]
    ELSE [w EXCEPT !.pc = "loop", !.nonce = 0]

\* lines 149-186: hash the nonce, update the local best, target check,
\* checkpoint, increment; r is the Result of line 150 and w the locals after
\* lines 155-160, each computed once per step
HashStep(i) ==
    /\ cpc = "join"
    /\ worker[i].pc = "hash"
    /\ \E r \in {hash_with_memory(proof.challenge, to_le_bytes(worker[i].nonce))} :
       \E w \in {UpdateBest(worker[i], r)} :
           /\ hashed' = [hashed EXCEPT ![i] = @ \cup {worker[i].nonce}]
           /\ found_best_solution' =
                 FlagAfterHash(w, Elapsed(i), found_best_solution)
           /\ IF TargetMet(w)
              THEN worker' = [worker EXCEPT ![i] = ContinueLoop(w)]
              ELSE IF CutoffBreak(w, Elapsed(i))
              THEN \* line 174: break, and line 189: return the tuple
                   worker' = [worker EXCEPT ![i] = [w EXCEPT !.pc = "done"]]
              ELSE worker' = [worker EXCEPT ![i] = IncrementNonce(w)]
    /\ UNCHANGED <<argVars, loopVars, proof, cutoff_time, cpc, ret, joined,
                   best_nonce, best_difficulty, best_hash, now>>

\* A second passes on the monotonic clock.  Time is only tracked while some
\* running worker still has its cutoff ahead of it; after that no comparison
\* of the source can tell one instant from a later one.
Tick ==
    /\ cpc = "join"
    /\ \E i \in Workers :
          /\ worker[i].pc \in {"loop", "hash", "sleep"}
          /\ Elapsed(i) < cutoff_time
    /\ now' = now + 1
    /\ UNCHANGED <<argVars, loopVars, proof, cutoff_time, cpc, ret,
                   found_best_solution, worker, joined, best_nonce,
                   best_difficulty, best_hash, hashed>>

\* lines 199-207: h.join() for the next handle, in spawn order
JoinOne ==
    /\ cpc = "join"
    /\ joined < threads
    /\ Joinable(worker[joined])
    /\ LET old == [best_nonce |-> best_nonce,
                   best_difficulty |-> best_difficulty,
                   best_hash |-> best_hash]
           \* `if let Ok(..) = h.join()`: the Err of a panicked thread is skipped
           acc == IF worker[joined].pc = "done"
                  THEN ReduceStep(old, worker[joined]) ELSE old
       IN  /\ best_nonce' = acc.best_nonce
           /\ best_difficulty' = acc.best_difficulty
           /\ best_hash' = acc.best_hash
    /\ joined' = joined + 1
    /\ UNCHANGED <<argVars, loopVars, proof, cutoff_time, cpc, ret,
                   found_best_solution, worker, now, hashed>>

\* lines 209-216: every handle is joined; the result tuple is built.
\* `min + best` is a u32 addition: it fits, or the call panics (a build with
\* overflow checks), or it wraps (a build without them).
Return ==
    /\ cpc = "join"
    /\ joined = threads
    /\ IF min + best <= U32_MAX
       THEN /\ ret' = ReturnValue(best_nonce, best_difficulty, best_hash, min + best)
            /\ cpc' = "returned"
       ELSE IF overflow_checks
       THEN /\ ret' = ret
            /\ cpc' = "panicked"
       ELSE /\ ret' = ReturnValue(best_nonce, best_difficulty, best_hash,
                                  (min + best) % (U32_MAX + 1))
            /\ cpc' = "returned"
    /\ UNCHANGED <<argVars, searchVars, loopVars, proof, cutoff_time>>

\* No value returned (yet).
NoRet == [solution |-> SolutionNew(<<>>, <<>>), should_increase_fee |-> FALSE,
          best_difficulty |-> -1]

(***************************************************************************)
(* Helpers of mine, lines 230-270.                                         *)
(***************************************************************************)
\* ore_api::consts::EPOCH_DURATION (used at mine.rs:234)
EPOCH_DURATION == 60
\* mine.rs:235  `.saturating_sub(5) // Buffer`
RESET_BUFFER == 5
\* mine.rs:85 and mine.rs:87
BASE_COMPUTE_BUDGET == 500000
RESET_COMPUTE_BUDGET == 100000
\* ore_api::consts::BUS_COUNT (8 in ore_api), scaled.
BUS_COUNT == 3
\* rand::thread_rng().gen_range(0..100), mine.rs:86
RAND_RANGE == 100

\* ore_api::consts::BUS_ADDRESSES: BUS_COUNT distinct addresses
BUS_ADDRESSES == [i \in 0..(BUS_COUNT - 1) |-> 1000 + i]

\* lines 239-247: get_cutoff, given the clock it reads
get_cutoff(lastHashAt, bufferTime, unixTimestamp) ==
    I64AsU64(Max(I64SaturatingSub(
                     I64SaturatingSub(I64SaturatingAdd(lastHashAt, FIXED_WINDOW),
                                      U64AsI64(bufferTime)),
                     unixTimestamp),
                 0))

\* Mutant: the epoch's duration is left out of the deadline.
should_reset_NoEpoch(cfg, unixTimestamp) ==
    I64SaturatingSub(cfg.last_reset_at, RESET_BUFFER) <= unixTimestamp

\* lines 230-237: should_reset, given the clock it reads
should_reset(cfg, unixTimestamp) ==
    I64SaturatingSub(I64SaturatingAdd(cfg.last_reset_at, EPOCH_DURATION),
                     RESET_BUFFER) <= unixTimestamp

\* What get_multiple_accounts gives for one bus address: None (the empty
\* sequence) or Some(account), <<data>>.  The data of an account is <<>> when
\* it is no Bus, and <<id, rewards>> when it is one: the id is read from the
\* data, whatever the address the account was found at.
NoAccount == <<>>
BadAccount == << <<>> >>
BusAccount(id, rewards) == << <<id, rewards>> >>

\* The ids (one of them past the end of BUS_ADDRESSES) and the rewards of the
\* buses the harnesses draw.
BusIds == 0..BUS_COUNT
BusRewards == 0..2
AccountSlots ==
    {NoAccount, BadAccount}
        \cup {BusAccount(id, rw) : id \in BusIds, rw \in BusRewards}

\* line 256: Bus::try_from_bytes(&account.data), Err as the empty sequence
try_from_bytes(data) ==
    IF Len(data) = 2 THEN <<[id |-> data[1], rewards |-> data[2]]>> ELSE <<>>

\* line 259: `BUS_ADDRESSES[bus.id as usize]` with an id past the end of the
\* array: index out of bounds, the thread panics.
Panic == -1

\* No random index was drawn.
NotDrawn == -1

\* find_bus has not been called in this iteration of the loop.
NoQuery == [answer |-> <<>>, rnd |-> NotDrawn]

\* Every bus account readable, with the id of its address and no rewards.
QuietBuses == [i \in 1..BUS_COUNT |-> BusAccount(i - 1, 0)]

\* Bus accounts of a run of mine: the first one missing and the others
\* without rewards; rewards that rise and then tie; and a first bus whose
\* data carries an id past the end of BUS_ADDRESSES.
BusTables ==
    {[i \in 1..BUS_COUNT |-> IF i = 1 THEN NoAccount ELSE BusAccount(i - 1, 0)],
     [i \in 1..BUS_COUNT |-> BusAccount(i - 1, IF i = 1 THEN 1 ELSE 2)],
     [i \in 1..BUS_COUNT |->
         IF i = 1 THEN BusAccount(BUS_COUNT, 1) ELSE BusAccount(i - 1, 0)]}

\* Mutant: `ge` for `gt` in the comparison of the rewards.
RECURSIVE TopBus_LastWins(_, _, _)
TopBus_LastWins(accounts, k, top) ==
    IF k > Len(accounts) THEN top[2]
    ELSE IF /\ accounts[k] # <<>>
            /\ try_from_bytes(accounts[k][1]) # <<>>
            /\ try_from_bytes(accounts[k][1])[1].rewards >= top[1]
         THEN LET bus == try_from_bytes(accounts[k][1])[1]
              IN  IF bus.id < BUS_COUNT
                  THEN TopBus_LastWins(accounts, k + 1,
                                       <<bus.rewards, BUS_ADDRESSES[bus.id]>>)
                  ELSE Panic
         ELSE TopBus_LastWins(accounts, k + 1, top)

\* lines 252-264: the scan for the bus with the largest rewards; `top` is
\* <<top_bus_balance, top_bus>> and `k` the index of the next account.  The
\* address taken is the one BUS_ADDRESSES holds at the id of the Bus
\* (line 259), and the scan panics there when the id is past its end.
RECURSIVE TopBus(_, _, _)
TopBus(accounts, k, top) ==
    IF k > Len(accounts) THEN top[2]
    ELSE IF /\ accounts[k] # <<>>
            /\ try_from_bytes(accounts[k][1]) # <<>>
            /\ try_from_bytes(accounts[k][1])[1].rewards > top[1]
         THEN LET bus == try_from_bytes(accounts[k][1])[1]
              IN  IF bus.id < BUS_COUNT
                  THEN TopBus(accounts, k + 1,
                              <<bus.rewards, BUS_ADDRESSES[bus.id]>>)
                  ELSE Panic
         ELSE TopBus(accounts, k + 1, top)

\* lines 249-270: find_bus, given the answer of get_multiple_accounts (the
\* empty sequence for Err, else <<accounts>>) and the random index drawn;
\* the address returned, or Panic
find_bus(answer, rnd) ==
    IF answer # <<>>
    THEN TopBus(answer[1], 1, <<0, BUS_ADDRESSES[0]>>)
    ELSE BUS_ADDRESSES[rnd]

(***************************************************************************)
(* mine, lines 28-104.                                                     *)
(***************************************************************************)
\* Largest proof.last_hash_at the ledger hands out.
MaxHashAt == 2

\* get_updated_proof_with_authority(.., last_hash_at): the proofs it may
\* return; it polls until the proof has advanced past last_hash_at
UpdatedProofs(lastHashAt) ==
    {p \in [challenge : {0, 1}, last_hash_at : 1..MaxHashAt] :
        p.last_hash_at > lastHashAt}

\* lines 52-61
FetchState ==
    /\ lpc = "FetchState"
    /\ \E c \in [last_reset_at : {0}, top_balance : {1}] :
       \E p \in UpdatedProofs(last_hash_at) :
          /\ config' = c
          /\ proof' = p
          /\ last_hash_at' = p.last_hash_at
    /\ lpc' = "ComputeCutoff"
    /\ UNCHANGED <<argVars, searchVars, cutoff_time, cpc, ret,
                   num_hash_created, num_hash_best_difficulty_created,
                   best_difficulty_created, ixs, compute_budget, clock,
                   submitted, submit_outcome, bus_query>>

\* line 64: get_cutoff reads the clock as t; then find_hash_par is called
ComputeCutoffAt(t) ==
    /\ lpc = "ComputeCutoff"
    /\ clock' = t
    /\ cutoff_time' = get_cutoff(proof.last_hash_at, buffer_time, t)
    /\ lpc' = "Search"
    /\ cpc' = "call"
    /\ UNCHANGED <<argVars, searchVars, proof, ret, last_hash_at,
                   num_hash_created, num_hash_best_difficulty_created,
                   best_difficulty_created, config, ixs, compute_budget,
                   submitted, submit_outcome, bus_query>>

\* In a run of mine the clock is about a minute past the proof's last hash.
ComputeCutoff == \E since \in 59..61 : ComputeCutoffAt(proof.last_hash_at + since)

\* lines 67-81: find_hash_par has returned; the reporting counters
Collect ==
    /\ lpc = "Search"
    /\ cpc = "returned"
    /\ num_hash_created' = num_hash_created + 1
    /\ num_hash_best_difficulty_created' =
          IF ret.best_difficulty > best
          THEN num_hash_best_difficulty_created + 1
          ELSE num_hash_best_difficulty_created
    /\ best_difficulty_created' =
          IF ret.best_difficulty > best_difficulty_created
          THEN ret.best_difficulty
          ELSE best_difficulty_created
    /\ lpc' = "DecideAuxiliaryAction"
    /\ cpc' = "idle"
    \* the locals of the finished call and of its threads, and the flag they
    \* shared, are gone
    /\ worker' = <<>>
    /\ hashed' = <<>>
    /\ joined' = 0
    /\ best_nonce' = 0
    /\ best_difficulty' = 0
    /\ best_hash' = DefaultHash
    /\ now' = 0
    /\ found_best_solution' = FALSE
    /\ UNCHANGED <<argVars, proof, cutoff_time, ret, last_hash_at, config, ixs,
                   compute_budget, clock, submitted, submit_outcome,
                   bus_query>>

\* lines 84-89: the batch starts with auth; should_reset reads the clock and a
\* random number below 100 is drawn
DecideAuxiliaryAction ==
    /\ lpc = "DecideAuxiliaryAction"
    /\ \E t \in 54..56, rnd \in {0, 1, RAND_RANGE - 1} :
          /\ clock' = t
          /\ IF should_reset(config, t) /\ rnd = 0
             THEN /\ compute_budget' = BASE_COMPUTE_BUDGET + RESET_COMPUTE_BUDGET
                  /\ ixs' = <<<<"auth">>, <<"reset">>>>
             ELSE /\ compute_budget' = BASE_COMPUTE_BUDGET
                  /\ ixs' = <<<<"auth">>>>
    /\ lpc' = "SelectEndpoint"
    /\ UNCHANGED <<argVars, searchVars, proof, cutoff_time, cpc, ret,
                   last_hash_at, num_hash_created,
                   num_hash_best_difficulty_created, best_difficulty_created,
                   config, submitted, submit_outcome, bus_query>>

\* lines 92-97: find_bus, and the mine instruction is pushed
SelectEndpoint ==
    /\ lpc = "SelectEndpoint"
    /\ \/ /\ find_bus(<<buses>>, 0) # Panic
          /\ bus_query' = [answer |-> <<buses>>, rnd |-> NotDrawn]
          /\ ixs' = Append(ixs, <<"mine", find_bus(<<buses>>, 0), ret.solution>>)
          /\ lpc' = "Submit"
       \/ \* line 259 panics inside find_bus: the thread running mine ends
          /\ find_bus(<<buses>>, 0) = Panic
          /\ bus_query' = [answer |-> <<buses>>, rnd |-> NotDrawn]
          /\ ixs' = ixs
          /\ lpc' = "panicked"
       \/ \E rnd \in 0..(BUS_COUNT - 1) :
             /\ bus_query' = [answer |-> <<>>, rnd |-> rnd]
             /\ ixs' = Append(ixs, <<"mine", find_bus(<<>>, rnd), ret.solution>>)
             /\ lpc' = "Submit"
    /\ UNCHANGED <<argVars, searchVars, proof, cutoff_time, cpc, ret,
                   last_hash_at, num_hash_created,
                   num_hash_best_difficulty_created, best_difficulty_created,
                   config, compute_budget, clock, submitted, submit_outcome>>

\* Mutant: a failed submission is sent again.
AfterSubmit_Retry(outcome) == IF outcome = "Err" THEN "Submit" ELSE "FetchState"

\* lines 100-103: `.ok()` drops the Result and the loop starts over
AfterSubmit(outcome) == "FetchState"

\* lines 100-103: send_and_confirm(..).await.ok(); the Result is dropped, and
\* the locals of this iteration of the loop go out of scope
Submit ==
    /\ lpc = "Submit"
    /\ \E outcome \in {"Ok", "Err"} :
          /\ submit_outcome' = outcome
          /\ lpc' = AfterSubmit(outcome)
    /\ submitted' = submitted + 1
    /\ bus_query' = NoQuery
    /\ ixs' = <<>>
    /\ compute_budget' = 0
    /\ ret' = NoRet
    /\ clock' = 0
    /\ UNCHANGED <<argVars, searchVars, proof, cutoff_time, cpc, last_hash_at,
                   num_hash_created, num_hash_best_difficulty_created,
                   best_difficulty_created, config>>

(***************************************************************************)
(* The program: mine, started with arguments drawn from bounded sets.      *)
(***************************************************************************)
\* The largest difficulty the hash function gives (Fail, below every
\* difficulty, when every hash fails).
MaxDifficulty ==
    CHOOSE m \in {oracle[k] : k \in DOMAIN oracle} :
        \A k \in DOMAIN oracle : oracle[k] <= m

\* A call in which every worker leaves its loop within the nonces up to its
\* second checkpoint, whatever the scheduling and the clock: some nonce
\* yields a difficulty above the target (lines 163-165: each worker meets it
\* within two hashes, and then only waits for the cutoff), or the cutoff is 0
\* and some nonce yields a difficulty above min (lines 169-174: each worker
\* breaks at a checkpoint).  In every other call with a worker, the workers
\* scan until the clock or another worker stops them, up to u64::MAX.
SelfStopping ==
    \/ threads = 0
    \/ MaxDifficulty > best
    \/ (cutoff_time = 0 /\ MaxDifficulty > min)

NoCall ==
    /\ found_best_solution = FALSE
    /\ worker = <<>>
    /\ hashed = <<>>
    /\ joined = 0
    /\ best_nonce = 0
    /\ best_difficulty = 0
    /\ best_hash = DefaultHash
    /\ ret = NoRet
    /\ now = 0

\* lines 30-41
LoopStart ==
    /\ last_hash_at = 0
    /\ num_hash_created = 0
    /\ num_hash_best_difficulty_created = 0
    /\ best_difficulty_created = 0
    /\ config = [last_reset_at |-> 0, top_balance |-> 1]
    /\ ixs = <<>>
    /\ compute_budget = 0
    /\ clock = 0
    /\ submitted = 0
    /\ submit_outcome = "none"
    /\ bus_query = NoQuery

Init ==
    /\ NoCall
    /\ LoopStart
    /\ lpc = "FetchState"
    /\ cpc = "idle"
    /\ buses \in BusTables
    /\ proof = [challenge |-> 0, last_hash_at |-> 0]
    /\ cutoff_time = 0
    /\ overflow_checks \in BOOLEAN
    /\ threads \in 1..2
    /\ buffer_time \in 0..1
    /\ \E th \in {<<0, 1>>, <<1, 2>>, <<2, 0>>, <<U32_MAX, 1>>} :
          min = th[1] /\ best = th[2]
    /\ oracle \in {<<Fail, 2>>, <<1, U32_MAX>>, <<2, 2>>}
    \* a run whose searches can find their target
    /\ MaxDifficulty > best

Next ==
    \/ FetchState
    \/ ComputeCutoff
    \/ Spawn
    \/ \E i \in Workers : WorkerStart(i)
    \/ \E i \in Workers : CheckStop(i)
    \/ \E i \in Workers : WakeUp(i)
    \/ \E i \in Workers : HashStep(i)
    \/ Tick
    \/ JoinOne
    \/ Return
    \/ Collect
    \/ DecideAuxiliaryAction
    \/ SelectEndpoint
    \/ Submit

Spec == Init /\ [][Next]_vars

(***************************************************************************)
(* The search harness: one call of find_hash_par on arguments drawn from   *)
(* bounded sets.                                                           *)
(***************************************************************************)
\* The ends of the u32 range and their neighbours.
U32Probes == {0, 1, U32_MAX - 1, U32_MAX}

\* A hash of difficulty 0 leaves every local best as a failed hash does, so
\* the tables draw their difficulties from 1 up.
OracleStubs == [1..2 -> {Fail} \cup (U32Probes \ {0})]

\* Pairs <<min, best>>: equal, either one larger, and sums past u32::MAX.
Thresholds ==
    {<<0, 0>>, <<0, 1>>, <<1, 0>>, <<1, 1>>, <<1, U32_MAX>>,
     <<0, U32_MAX - 1>>, <<U32_MAX - 1, U32_MAX - 1>>, <<U32_MAX, 1>>,
     <<U32_MAX, U32_MAX>>}

\* The calls of the search harness: both builds, every table and every pair
\* of Thresholds with which the call is SelfStopping.
SearchConfig ==
    /\ overflow_checks \in BOOLEAN
    /\ threads \in 0..2
    /\ cutoff_time \in 0..MaxCutoff
    /\ \E th \in Thresholds : min = th[1] /\ best = th[2]
    /\ oracle \in OracleStubs
    /\ SelfStopping

InitCall ==
    /\ NoCall
    /\ LoopStart
    /\ lpc = "Search"
    /\ cpc = "call"
    /\ buses = QuietBuses
    /\ buffer_time = 0
    /\ proof \in [challenge : {0, 1}, last_hash_at : {1}]

InitSearch == InitCall /\ SearchConfig

NextSearch ==
    \/ Spawn
    \/ \E i \in Workers : WorkerStart(i)
    \/ \E i \in Workers : CheckStop(i)
    \/ \E i \in Workers : WakeUp(i)
    \/ \E i \in Workers : HashStep(i)
    \/ Tick
    \/ JoinOne
    \/ Return

SearchSpec == InitSearch /\ [][NextSearch]_vars

\* Every step of thread i.
WorkerStep(i) ==
    /\ i \in DOMAIN worker
    /\ WorkerStart(i) \/ CheckStop(i) \/ WakeUp(i) \/ HashStep(i)

\* The operating system schedules every thread that can run, the clock
\* advances, and the coordinator runs when the handle it waits for is ready.
Fairness ==
    /\ WF_vars(Spawn \/ JoinOne \/ Return)
    /\ \A i \in 0..1 : WF_vars(WorkerStep(i))
    /\ WF_vars(Tick)

\* The configurations of the fair harness: no worker, one or two; a table
\* that always fails, one that fails at first, one that never does.
FairConfig ==
    /\ overflow_checks \in BOOLEAN
    /\ threads \in 0..2
    /\ cutoff_time \in 0..MaxCutoff
    /\ \E th \in {<<0, 1>>, <<1, U32_MAX>>, <<U32_MAX, 1>>} :
          min = th[1] /\ best = th[2]
    /\ oracle \in {<<Fail, Fail>>, <<Fail, 2>>, <<1, 2>>}
    /\ proof.challenge = 0
    \* a call that is SelfStopping, or one worker with every hash failing,
    \* which scans up to u64::MAX and past it
    /\ SelfStopping \/ (MaxDifficulty = Fail /\ threads = 1)

InitFair == InitCall /\ FairConfig

FairSearch == InitFair /\ [][NextSearch]_vars /\ Fairness

(***************************************************************************)
(* The scan harness: calls with a cutoff of 0 in which no nonce yields a   *)
(* difficulty above min or the target, so that no worker ever leaves its   *)
(* loop by a `break`; the scans are followed up to u64::MAX and past it.   *)
(* One worker is followed in both builds; two workers in the build with    *)
(* overflow checks, where each scan ends at u64::MAX.  For contrast, the   *)
(* harness has one call more, with a cutoff of a second and a difficulty   *)
(* above the target: its worker stops and waits for the cutoff.            *)
(***************************************************************************)
ScanConfig ==
    /\ proof.challenge = 0
    /\ \/ /\ cutoff_time = 0
          /\ threads = 1
          /\ overflow_checks \in BOOLEAN
          /\ \E th \in {<<1, 1>>, <<U32_MAX - 1, U32_MAX - 1>>} :
                min = th[1] /\ best = th[2]
          /\ oracle \in {<<Fail, Fail>>, <<0, 1>>, <<Fail, 1>>}
       \/ /\ cutoff_time = 0
          /\ threads = 2
          /\ overflow_checks = TRUE
          /\ min = 1
          /\ best = 1
          /\ oracle \in {<<Fail, Fail>>, <<0, 1>>}
       \/ /\ cutoff_time = 1
          /\ threads = 1
          /\ overflow_checks = FALSE
          /\ min = 1
          /\ best = 1
          /\ oracle = <<U32_MAX, U32_MAX>>

InitScan == InitCall /\ ScanConfig

ScanSpec == InitScan /\ [][NextSearch]_vars

(***************************************************************************)
(* The cutoff harness: get_cutoff on a proof, a buffer and a clock drawn   *)
(* from the edges and the middle of their types.                           *)
(***************************************************************************)
I64Probes == {I64_MIN, I64_MIN + 1, -FIXED_WINDOW - 1, -1, 0, 1,
              I64_MAX - FIXED_WINDOW, I64_MAX - FIXED_WINDOW + 1,
              I64_MAX - 1, I64_MAX}

U64Probes == {0, 1, FIXED_WINDOW, I64_MAX, I64_MAX + 1, U64_MAX}

InitCutoff ==
    /\ NoCall
    /\ LoopStart
    /\ lpc = "ComputeCutoff"
    /\ cpc = "idle"
    /\ cutoff_time = 0
    \* get_cutoff casts and saturates: it has no operation that can overflow
    /\ overflow_checks = FALSE
    /\ threads = 1
    /\ min = 0
    /\ best = 0
    /\ oracle = <<Fail, Fail>>
    /\ buses = QuietBuses
    /\ proof \in [challenge : {0}, last_hash_at : I64Probes]
    /\ buffer_time \in U64Probes

NextCutoff == \E t \in I64Probes : ComputeCutoffAt(t)

CutoffSpec == InitCutoff /\ [][NextCutoff]_vars

(***************************************************************************)
(* The bus harness: find_bus on every answer of get_multiple_accounts, or  *)
(* on its failure, for a batch that holds the auth instruction.            *)
(***************************************************************************)
InitBus ==
    /\ found_best_solution = FALSE
    /\ worker = <<>>
    /\ hashed = <<>>
    /\ joined = 0
    /\ best_nonce = 0
    /\ best_difficulty = 0
    /\ best_hash = DefaultHash
    /\ now = 0
    /\ lpc = "SelectEndpoint"
    /\ cpc = "idle"
    /\ cutoff_time = 0
    \* find_bus has no arithmetic
    /\ overflow_checks = FALSE
    /\ threads = 0
    /\ min = 0
    /\ best = 0
    /\ oracle = <<Fail, Fail>>
    /\ buffer_time = 0
    /\ proof = [challenge |-> 0, last_hash_at |-> 1]
    /\ last_hash_at = 1
    \* the search of this cycle, with no worker, returned the default
    /\ ret = ReturnValue(0, 0, DefaultHash, 0)
    /\ num_hash_created = 1
    /\ num_hash_best_difficulty_created = 0
    /\ best_difficulty_created = 0
    /\ config = [last_reset_at |-> 0, top_balance |-> 1]
    /\ ixs = <<<<"auth">>>>
    /\ compute_budget = BASE_COMPUTE_BUDGET
    /\ clock = 0
    /\ submitted = 0
    /\ submit_outcome = "none"
    /\ bus_query = NoQuery
    /\ buses \in [1..BUS_COUNT -> AccountSlots]

NextBus == SelectEndpoint

BusSpec == InitBus /\ [][NextBus]_vars

(***************************************************************************)
(* Properties.                                                             *)
(***************************************************************************)
Returned == cpc = "returned"

Running(w) == w.pc \in {"start", "loop", "hash", "sleep"}

\* C1: find_hash_par has spawned exactly `threads` workers, and it returns only
\* after every one of them has returned its tuple: whenever the call has
\* produced its result, no worker is still starting, scanning or idling.
C1_ReturnsAfterAllWorkers ==
    /\ cpc \in {"join", "returned", "panicked"} => DOMAIN worker = 0..(threads - 1)
    /\ cpc \in {"returned", "panicked"} =>
          /\ joined = threads
          /\ \A i \in DOMAIN worker : ~Running(worker[i])

\* C1 witness: a call with two workers has returned, one of its workers
\* having idled on the way.
C1_Witness ==
    /\ Returned
    /\ threads = 2
    /\ cutoff_time = 1
    /\ \E i \in DOMAIN worker : worker[i].timer < now

\* The largest best_difficulty in the tuples the workers returned.
MaxOutcome == CHOOSE m \in {worker[i].best_difficulty : i \in DOMAIN worker} :
                 \A i \in DOMAIN worker : worker[i].best_difficulty <= m

\* The first worker, in join order, whose tuple has that difficulty.
FirstBest == CHOOSE f \in DOMAIN worker :
                /\ worker[f].best_difficulty = MaxOutcome
                /\ \A i \in DOMAIN worker :
                      worker[i].best_difficulty = MaxOutcome => f <= i

\* C2: when find_hash_par returns, the difficulty it reports is the largest
\* best_difficulty among the workers' tuples, and the nonce and the hash it
\* reports are those of the first worker (in join order) with that difficulty.
C2_MaxFirstWins ==
    (Returned /\ threads >= 1) =>
        /\ ret.best_difficulty = MaxOutcome
        /\ best_nonce = worker[FirstBest].best_nonce
        /\ best_hash = worker[FirstBest].best_hash
        /\ ret.solution = SolutionNew(worker[FirstBest].best_hash.d,
                                      to_le_bytes(worker[FirstBest].best_nonce))

\* C2 witness: a call returned whose two workers tie on the largest
\* difficulty with different nonces.
C2_Witness ==
    /\ Returned
    /\ threads = 2
    /\ worker[0].best_difficulty = worker[1].best_difficulty
    /\ worker[0].best_difficulty > 0
    /\ worker[0].best_nonce # worker[1].best_nonce

\* A worker of the call that both states know.
Known(i) == i \in DOMAIN worker /\ i \in DOMAIN worker'

\* C3: the flag of a call starts false; while the call runs it only ever goes
\* from false to true; it is false again only once the call has returned with
\* every worker done; and a worker hashes a nonce only in an iteration that
\* began by reading the flag as false.
C3_FlagSetOnce ==
    [][ /\ (cpc = "call" /\ cpc' = "join") => ~found_best_solution'
        /\ (found_best_solution /\ ~found_best_solution') =>
              /\ cpc = "returned"
              /\ \A i \in DOMAIN worker : worker[i].pc = "done"
        /\ \A i \in 0..(threads - 1) :
              /\ (Known(i) /\ hashed'[i] # hashed[i]) => worker[i].pc = "hash"
              /\ (Known(i) /\ worker'[i].pc = "hash" /\ worker[i].pc # "hash") =>
                    worker[i].pc = "loop" /\ ~found_best_solution
      ]_vars

\* C3 witness: in the second call of a run the flag is set while a worker that
\* read it is idling and another is still scanning.
C3_Witness ==
    /\ num_hash_created >= 1
    /\ cpc = "join"
    /\ found_best_solution
    /\ \E i, j \in DOMAIN worker :
          worker[i].pc = "sleep" /\ worker[j].pc = "hash"

\* Some worker holds a local best above the target.
TargetFound == \E i \in DOMAIN worker : worker[i].best_difficulty > best

\* C4: once a worker has hashed a nonce whose difficulty is above the target
\* (best), the call eventually returns, and the difficulty it reports is above
\* the target and not below the local best of any worker.
C4_TargetFoundReturns ==
    TargetFound ~>
        (/\ Returned
         /\ ret.best_difficulty > best
         /\ \A i \in DOMAIN worker : ret.best_difficulty >= worker[i].best_difficulty)

\* C4, where `min + best` fits a u32: the same, with the call free of the
\* overflow of line 216.
C4_TargetFoundReturnsNoOverflow ==
    (TargetFound /\ min + best <= U32_MAX) ~>
        (/\ Returned
         /\ ret.best_difficulty > best
         /\ \A i \in DOMAIN worker : ret.best_difficulty >= worker[i].best_difficulty)

\* Every hash computation fails.
AllFail == \A k \in DOMAIN oracle : oracle[k] = Fail

\* C5 as stated: if every hash computation fails, the call still returns, with
\* difficulty 0.  It is stated for the calls in which `min + best` fits a u32,
\* so that the only way not to return is a worker that never ends.
C5_AllFailStillReturns ==
    (AllFail /\ cpc = "call" /\ min + best <= U32_MAX) ~>
        (Returned /\ ret.best_difficulty = 0)

\* C5 amended: if every hash computation fails, every local best stays at
\* difficulty 0, and at no nonce it scans does a worker set the flag or
\* return a result.  A worker only ends by the panic of `nonce += 1` after it
\* hashed u64::MAX, in a build with overflow checks; in a build without
\* them it goes on from nonce 0.  So a call with a worker never returns in a
\* build without overflow checks, and in a build with them it ends only after
\* every worker panicked.  A call that returns (it has no worker, or all its
\* workers panicked) returns difficulty 0, nonce 0 and the default hash.
C5_AllFailNoWorkerReturns ==
    AllFail =>
        /\ ~found_best_solution
        /\ \A i \in DOMAIN worker :
              /\ worker[i].pc # "done"
              /\ worker[i].best_difficulty = 0
              /\ worker[i].pc = "panicked" =>
                    (overflow_checks /\ U64_MAX \in hashed[i])
        /\ (cpc \in {"returned", "panicked"} /\ threads >= 1) =>
              /\ overflow_checks
              /\ \A i \in DOMAIN worker : worker[i].pc = "panicked"
        /\ Returned =>
              /\ ret.best_difficulty = 0
              /\ ret.solution = SolutionNew(DefaultHash.d, to_le_bytes(0))

\* C5 witness: every hash failed, the cutoff is already reached, and a worker
\* went past its checkpoint at nonce 0 and on to later nonces.
C5_Witness ==
    /\ AllFail
    /\ threads >= 1
    /\ cutoff_time = 0
    /\ 0 \in DOMAIN hashed
    /\ {0, 1} \subseteq hashed[0]
    /\ worker[0].pc = "hash"

\* No nonce yields a difficulty above min or above the target.
NeverAbove ==
    \A k \in DOMAIN oracle : oracle[k] = Fail \/ (oracle[k] <= min /\ oracle[k] <= best)

\* C6 as stated: with a cutoff of 0 seconds and a hash function that never
\* yields a difficulty above min (nor above the target), every worker passes
\* its checkpoints without leaving the loop: the flag is never set, no worker
\* returns, and the call does not return.
C6_BelowMinNeverReturns ==
    (cutoff_time = 0 /\ NeverAbove /\ threads >= 1) =>
        /\ ~found_best_solution
        /\ \A i \in DOMAIN worker : worker[i].pc # "done"
        /\ cpc \notin {"returned", "panicked"}
        /\ joined = 0

\* C6 amended: in such a call the flag is never set and no worker leaves its
\* loop by a `break`, at any checkpoint.  In a build without overflow checks
\* no worker ever ends and the call never returns.  In a build with them a
\* worker ends, by a panic, when it has hashed u64::MAX and increments its
\* nonce; only workers that panicked are joined, the call ends only after
\* all of them did, and what it then returns is difficulty 0, nonce 0 and the
\* default hash, whatever the workers found.
C6_BelowMinEndsOnlyByOverflow ==
    (cutoff_time = 0 /\ NeverAbove /\ threads >= 1) =>
        /\ ~found_best_solution
        /\ \A i \in DOMAIN worker :
              /\ worker[i].pc # "done"
              /\ worker[i].pc = "panicked" =>
                    (overflow_checks /\ U64_MAX \in hashed[i])
              /\ i < joined => worker[i].pc = "panicked"
        /\ cpc \in {"returned", "panicked"} => joined = threads
        /\ ~overflow_checks => (cpc \in {"call", "join"} /\ joined = 0)
        /\ Returned =>
              /\ ret.best_difficulty = 0
              /\ ret.solution = SolutionNew(DefaultHash.d, to_le_bytes(0))

\* C6 witness: with such a hash function, worker 0 has passed the checkpoints
\* at nonces 0 and 100 and worker 1 the one at nonce 100, with a local best
\* above 0, and both are still scanning.
C6_Witness ==
    /\ cutoff_time = 0
    /\ NeverAbove
    /\ threads = 2
    /\ DOMAIN hashed = {0, 1}
    /\ {0, CHECKPOINT} \subseteq hashed[0]
    /\ CHECKPOINT \in hashed[1]
    /\ worker[0].nonce > CHECKPOINT
    /\ worker[1].nonce > CHECKPOINT
    /\ worker[0].best_difficulty > 0

\* C7: the fee hint find_hash_par returns is true exactly when the difficulty
\* it returns is above (min + best) / 2, rounded down.
C7_FeeHintIsAboveMidpoint ==
    Returned => (ret.should_increase_fee <=> ret.best_difficulty > (min + best) \div 2)

\* C7, where `min + best` fits a u32.
C7_FeeHintNoOverflow ==
    (Returned /\ min + best <= U32_MAX) =>
        (ret.should_increase_fee <=> ret.best_difficulty > (min + best) \div 2)

\* C8: get_cutoff returns max(0, last_hash_at + 60 - buffer_time - now) for all
\* inputs; the result is never negative, and it does not grow with the clock.
C8_CutoffFormula ==
    lpc = "Search" =>
        /\ cutoff_time = Max(0, proof.last_hash_at + FIXED_WINDOW - buffer_time - clock)
        /\ cutoff_time >= 0
        /\ \A t \in I64_MIN..I64_MAX :
              t >= clock =>
                 get_cutoff(proof.last_hash_at, buffer_time, t) <= cutoff_time

\* C8, the part the saturating arithmetic keeps: never negative, and
\* non-increasing in the clock.
C8_CutoffMonotone ==
    lpc = "Search" =>
        /\ cutoff_time >= 0
        /\ \A t \in I64_MIN..I64_MAX :
              t >= clock =>
                 get_cutoff(proof.last_hash_at, buffer_time, t) <= cutoff_time

\* C8, where nothing saturates and buffer_time is below 2^63: the formula.
C8_CutoffFormulaInRange ==
    (/\ lpc = "Search"
     /\ buffer_time <= I64_MAX
     /\ proof.last_hash_at + FIXED_WINDOW <= I64_MAX
     /\ proof.last_hash_at + FIXED_WINDOW - buffer_time >= I64_MIN
     /\ proof.last_hash_at + FIXED_WINDOW - buffer_time - clock <= I64_MAX) =>
        cutoff_time = Max(0, proof.last_hash_at + FIXED_WINDOW - buffer_time - clock)

\* floor(u64::MAX / k), the length of a worker's share of the nonce space.
ShareLen == U64_MAX \div threads

\* The share of worker i: from floor(u64::MAX / k) * i up to the start of the
\* next worker; the last worker's share takes the remainder.
Share(i) ==
    IF i = threads - 1 THEN (ShareLen * i)..U64_MAX
    ELSE (ShareLen * i)..(ShareLen * (i + 1) - 1)

\* C9 as stated: worker i of k starts at floor(u64::MAX / k) * i, the nonces a
\* worker hashes stay inside its own share, and no nonce is hashed by two
\* workers of a call.
C9_DisjointShares ==
    \A i, j \in DOMAIN hashed :
        /\ worker[i].pc # "start" => worker[i].nonce >= ShareLen * i
        /\ hashed[i] \subseteq Share(i)
        /\ i # j => hashed[i] \cap hashed[j] = {}

\* C9 amended: worker i of k starts at floor(u64::MAX / k) * i and hashes
\* consecutive nonces upward from there, with no upper bound; the nonces of
\* two workers are disjoint as long as neither has hashed more than
\* floor(u64::MAX / k) of them, and whatever a worker hashes inside its
\* share is hashed by no worker that is still inside its own.
C9_DisjointWithinShare ==
    \A i, j \in DOMAIN hashed :
        /\ hashed[i] = (ShareLen * i)..(ShareLen * i + Cardinality(hashed[i]) - 1)
        /\ worker[i].pc # "start" =>
              worker[i].nonce \in {ShareLen * i + Cardinality(hashed[i]) - 1,
                                   ShareLen * i + Cardinality(hashed[i])}
        /\ (/\ i # j
            /\ Cardinality(hashed[i]) <= ShareLen
            /\ Cardinality(hashed[j]) <= ShareLen) => hashed[i] \cap hashed[j] = {}

\* C9 witness: of two workers, worker 0 has hashed three nonces and worker 1
\* two, each from its start nonce on, all of them different.
C9_Witness ==
    /\ threads = 2
    /\ DOMAIN hashed = {0, 1}
    /\ hashed[0] = {StartNonce(0), StartNonce(0) + 1, StartNonce(0) + 2}
    /\ hashed[1] = {StartNonce(1), StartNonce(1) + 1}
    /\ hashed[0] \cap hashed[1] = {}

\* The order of the states of the mining loop.
LoopCycle ==
    {<<"FetchState", "ComputeCutoff">>, <<"ComputeCutoff", "Search">>,
     <<"Search", "DecideAuxiliaryAction">>,
     <<"DecideAuxiliaryAction", "SelectEndpoint">>,
     <<"SelectEndpoint", "Submit">>, <<"Submit", "FetchState">>}

\* The loop goes from state to state in its cyclic order; a new FetchState
\* starts only as a Submit ends; the search runs only in the Search state,
\* one call at a time.
LoopOrder ==
    /\ lpc' # lpc => <<lpc, lpc'>> \in LoopCycle
    /\ (lpc' = "FetchState" /\ lpc # "FetchState") => submitted' = submitted + 1
    /\ submitted' # submitted => (lpc = "Submit" /\ lpc' = "FetchState")
    /\ searchVars' # searchVars => lpc = "Search"
    /\ cpc' \in {"call", "join", "returned"} => lpc' = "Search"
    /\ (cpc = "call" /\ cpc' = "join") => worker = <<>>

\* C10: the mining loop visits FetchState, ComputeCutoff, Search,
\* DecideAuxiliaryAction, SelectEndpoint, Submit and FetchState again in this
\* order, strictly one cycle and one search call at a time, and no step of it
\* ends the loop.
C10_CyclicNoTerminalState ==
    [][LoopOrder /\ cpc' # "panicked"]_vars

\* C10, the order and the serialization alone, in the steps that do not end
\* the loop.
C10_CyclicOrder == [][LoopOrder \/ lpc' = "panicked"]_vars

\* 1 while the batch of the current cycle is being built and not yet sent,
\* or was being built when find_bus panicked.
BatchOpen ==
    IF lpc \in {"DecideAuxiliaryAction", "SelectEndpoint", "Submit", "panicked"}
    THEN 1 ELSE 0

\* C11: the outcome of send_and_confirm is never inspected: a submission,
\* failed or not, is followed by the next FetchState with last_hash_at and
\* the reporting counters as they were, and every cycle whose search
\* returned makes exactly one submission.
C11_SubmitOutcomeIgnored ==
    [][ /\ submitted = num_hash_created - BatchOpen
        /\ submitted' # submitted =>
              /\ submitted' = submitted + 1
              /\ lpc = "Submit"
              /\ lpc' = "FetchState"
              /\ UNCHANGED <<last_hash_at, num_hash_created,
                             num_hash_best_difficulty_created,
                             best_difficulty_created>>
      ]_vars

\* C11 witness: the only submission so far failed, and the loop has fetched
\* the next proof and gone on to the cutoff.
C11_Witness ==
    /\ submit_outcome = "Err"
    /\ submitted = 1
    /\ lpc = "ComputeCutoff"
    /\ last_hash_at = MaxHashAt

\* The bus find_bus returned, as put in the mine instruction.
ChosenBus == ixs[Len(ixs)][2]

\* The account found at the k-th address is a Bus.
IsBus(a, k) == a[k] # <<>> /\ try_from_bytes(a[k][1]) # <<>>

\* The Bus found at the k-th address.
BusAt(a, k) == try_from_bytes(a[k][1])[1]

\* The indices of the candidates whose state was readable, with rewards of at
\* least `least`.
Readable(a, least) ==
    {k \in 1..BUS_COUNT : IsBus(a, k) /\ BusAt(a, k).rewards >= least}

\* The earliest candidate of R with the largest rewards.
EarliestMax(a, R) ==
    CHOOSE k \in R :
        \A j \in R : \/ BusAt(a, j).rewards < BusAt(a, k).rewards
                     \/ (BusAt(a, j).rewards = BusAt(a, k).rewards /\ k <= j)

\* The candidates of R whose rewards are above those of every earlier one.
Leaders(a, R) ==
    {k \in R : \A j \in R : j < k => BusAt(a, j).rewards < BusAt(a, k).rewards}

\* C12 as stated: find_bus always returns, and what it returns is a member
\* of BUS_ADDRESSES; when the query succeeds it is the earliest candidate with
\* the largest rewards among the readable ones.
C12_LargestReadable ==
    /\ lpc # "panicked"
    /\ lpc = "Submit" =>
        /\ \E i \in DOMAIN BUS_ADDRESSES : ChosenBus = BUS_ADDRESSES[i]
        /\ (bus_query.answer # <<>> /\ Readable(bus_query.answer[1], 0) # {}) =>
              ChosenBus = BUS_ADDRESSES[
                  EarliestMax(bus_query.answer[1],
                              Readable(bus_query.answer[1], 0)) - 1]

\* C12, what find_bus does: when the query succeeds it panics if a readable
\* bus whose rewards are above 0 and above those of every earlier one carries
\* an id past the end of BUS_ADDRESSES; otherwise it returns the address at
\* the id carried by the earliest bus with the largest readable rewards, if
\* these are above 0, and the first address if they are not; when the query
\* fails it returns the address at the random index drawn.
C12_LargestPositive ==
    /\ (lpc = "panicked" \/ (lpc = "Submit" /\ bus_query.answer # <<>>)) =>
          LET a == bus_query.answer[1]
              R == Readable(a, 1)
          IN  /\ lpc = "panicked" <=>
                    \E k \in Leaders(a, R) : BusAt(a, k).id >= BUS_COUNT
              /\ lpc = "Submit" =>
                    IF R = {}
                    THEN ChosenBus = BUS_ADDRESSES[0]
                    ELSE ChosenBus = BUS_ADDRESSES[BusAt(a, EarliestMax(a, R)).id]
    /\ (lpc = "Submit" /\ bus_query.answer = <<>>) =>
          ChosenBus = BUS_ADDRESSES[bus_query.rnd]

\* C12 witness: the query succeeded, the first account is missing and two
\* later ones, each with the id of its address, tie on the largest rewards;
\* the earlier of the two was chosen.
C12_Witness ==
    /\ lpc = "Submit"
    /\ bus_query.answer # <<>>
    /\ bus_query.answer[1][1] = NoAccount
    /\ bus_query.answer[1][2] = BusAccount(1, 2)
    /\ bus_query.answer[1][3] = BusAccount(2, 2)
    /\ ChosenBus = BUS_ADDRESSES[1]

\* C12: the Bus read at the first address carries the id of another address
\* and the largest rewards; the address at that id was chosen, not the
\* candidate the rewards were read at.
C12_IdNotPosition ==
    /\ lpc = "Submit"
    /\ bus_query.answer # <<>>
    /\ bus_query.answer[1][1] = BusAccount(1, 2)
    /\ bus_query.answer[1][2] = BusAccount(1, 0)
    /\ ChosenBus = BUS_ADDRESSES[1]

\* C12: the Bus read at the first address carries an id past the end of
\* BUS_ADDRESSES and rewards above 0; find_bus panicked.
C12_IdOutOfBounds ==
    /\ lpc = "panicked"
    /\ bus_query.answer # <<>>
    /\ bus_query.answer[1][1] = BusAccount(BUS_COUNT, 1)

\* The batch holds a reset instruction.
HasReset == \E k \in DOMAIN ixs : ixs[k][1] = "reset"

\* C13: a reset is in the batch only if the clock read at the decision is at
\* or past config.last_reset_at + EPOCH_DURATION - 5, for the config fetched
\* in this cycle; the compute budget is 600000 with a reset and 500000
\* without; and the batch is auth, then the reset if any, then mine.
C13_ResetOnlyPastDeadline ==
    lpc \in {"SelectEndpoint", "Submit"} =>
        /\ HasReset => clock >= config.last_reset_at + EPOCH_DURATION - 5
        /\ compute_budget = IF HasReset THEN 600000 ELSE 500000
        /\ ixs[1][1] = "auth"
        /\ HasReset => ixs[2][1] = "reset"
        /\ Len(ixs) = 1 + (IF HasReset THEN 1 ELSE 0)
                        + (IF lpc = "Submit" THEN 1 ELSE 0)
        /\ lpc = "Submit" => ixs[Len(ixs)][1] = "mine"
        /\ \A k \in DOMAIN ixs :
              /\ ixs[k][1] = "auth" => k = 1
              /\ ixs[k][1] = "reset" => k = 2
              /\ ixs[k][1] = "mine" => k = Len(ixs) /\ lpc = "Submit"

\* C13 witness: the clock was read exactly at the deadline, and a batch of
\* auth, reset and mine is about to be submitted.
C13_Witness ==
    /\ lpc = "Submit"
    /\ clock = config.last_reset_at + EPOCH_DURATION - RESET_BUFFER
    /\ Len(ixs) = 3
    /\ HasReset
    /\ compute_budget = BASE_COMPUTE_BUDGET + RESET_COMPUTE_BUDGET

\* The Result of hashing the nonce worker i is at.
HashOf(i) == hash_with_memory(proof.challenge, to_le_bytes(worker[i].nonce))

\* Worker i hashes its current nonce in this step.
Hashes(i) == Known(i) /\ worker[i].pc = "hash" /\ worker'[i].pc # "hash"

\* The local best of a worker.
LocalBest(w) == <<w.best_nonce, w.best_difficulty, w.best_hash>>

\* C14: a hash computation that fails leaves the worker's local best (nonce,
\* difficulty, hash) as it was, and the worker goes on to nonce + 1 and keeps
\* scanning, unless the cutoff check of that iteration makes it return (at a
\* multiple of 100, past the cutoff, with a local best above min).
C14_FailedHashSkipped ==
    [][ \A i \in 0..(threads - 1) :
          (Hashes(i) /\ HashOf(i) = <<>>) =>
              /\ LocalBest(worker'[i]) = LocalBest(worker[i])
              /\ found_best_solution' = found_best_solution
                    \/ worker'[i].pc = "done"
              /\ IF /\ worker[i].nonce % 100 = 0
                    /\ now - worker[i].timer >= cutoff_time
                    /\ worker[i].best_difficulty > min
                 THEN worker'[i].pc = "done"
                 ELSE /\ worker'[i].pc = "loop"
                      /\ worker'[i].nonce = worker[i].nonce + 1
      ]_vars

\* C14 witness: worker 0 failed on its first nonce, hashed its second, failed
\* on its third, kept the second as its best and went on to a fourth.
C14_Witness ==
    /\ 0 \in DOMAIN worker
    /\ oracle[1] = Fail
    /\ oracle[2] # Fail
    /\ proof.challenge = 0
    /\ worker[0].pc = "hash"
    /\ worker[0].nonce = 3
    /\ worker[0].best_nonce = 1
    /\ worker[0].best_difficulty = oracle[2]
    /\ hashed[0] = {0, 1, 2}

\* C15: the local best difficulty of a worker starts at 0 and never goes
\* down; the local best changes only when the worker hashes a nonce whose
\* difficulty is above it, and becomes that nonce, difficulty and hash.
C15_LocalBestMonotone ==
    [][ \A i \in 0..(threads - 1) : Known(i) =>
          /\ (worker[i].pc = "start" /\ worker'[i].pc # "start") =>
                worker'[i].best_difficulty = 0
          /\ worker[i].pc # "start" =>
                worker'[i].best_difficulty >= worker[i].best_difficulty
          /\ (worker[i].pc # "start"
                 /\ LocalBest(worker'[i]) # LocalBest(worker[i])) =>
                /\ Hashes(i)
                /\ HashOf(i) # <<>>
                /\ Difficulty(HashOf(i)[1]) > worker[i].best_difficulty
                /\ LocalBest(worker'[i]) =
                      <<worker[i].nonce, Difficulty(HashOf(i)[1]), HashOf(i)[1]>>
      ]_vars

\* C15 witness: the second of two workers hashed two nonces of the same
\* difficulty and holds the first of them as its best.
C15_Witness ==
    /\ threads = 2
    /\ 1 \in DOMAIN worker
    /\ oracle[1] = oracle[2]
    /\ oracle[1] # Fail
    /\ hashed[1] = {StartNonce(1), StartNonce(1) + 1}
    /\ worker[1].best_nonce = StartNonce(1)
    /\ worker[1].best_difficulty = oracle[1]

\* Worker i is past a load of the flag that read true, or at a load that
\* will.
ReadsSet(i) == found_best_solution /\ worker[i].pc \in {"loop", "sleep", "done"}

\* C16: once a worker reads the flag as set it hashes no more and its nonce
\* and local best stay as they are; each later iteration returns if the
\* elapsed time has reached the cutoff and else sleeps and rechecks.  A worker
\* whose local best exceeds the target sets the flag and goes back to the top
\* of the loop with its nonce as it was.
C16_StoppedWorkerFrozen ==
    [][ \A i \in 0..(threads - 1) : Known(i) =>
          /\ ReadsSet(i) =>
                /\ worker'[i].nonce = worker[i].nonce
                /\ LocalBest(worker'[i]) = LocalBest(worker[i])
                /\ hashed'[i] = hashed[i]
                /\ worker'[i].pc \in {"loop", "sleep", "done"}
                /\ (worker[i].pc = "loop" /\ worker'[i] # worker[i]) =>
                      worker'[i].pc = IF now - worker[i].timer >= cutoff_time
                                      THEN "done" ELSE "sleep"
                /\ (worker[i].pc = "sleep" /\ worker'[i] # worker[i]) =>
                      worker'[i].pc = "loop"
                /\ worker[i].pc = "done" => worker'[i] = worker[i]
          /\ (Hashes(i) /\ worker'[i].best_difficulty > best) =>
                /\ found_best_solution'
                /\ worker'[i].pc = "loop"
                /\ worker'[i].nonce = worker[i].nonce
      ]_vars

\* C16 witness: worker 0 met the target at its first nonce, set the flag and
\* now idles at that nonce; worker 1, with nothing found, read the flag and
\* idles too.
C16_Witness ==
    /\ DOMAIN worker = {0, 1}
    /\ found_best_solution
    /\ worker[0].pc = "sleep"
    /\ worker[0].best_difficulty > best
    /\ worker[0].nonce = StartNonce(0)
    /\ worker[1].pc = "sleep"
    /\ worker[1].best_difficulty = 0
    /\ hashed[1] # {}

Smaller(a, b) == IF a <= b THEN a ELSE b

C17_NeverAtOrBelowMin ==
    (Returned /\ threads >= 1 /\ best < min) => ret.best_difficulty > min

SomeDone == \E i \in DOMAIN worker : worker[i].pc = "done"

\* C19: whenever a worker of a call has returned, the flag of the call is
\* set; and once a worker has returned, every worker of the call returns, all
\* handles are joined and the call ends.
C19_OneReturnStopsAll ==
    /\ [](SomeDone => found_best_solution)
    /\ SomeDone ~> (/\ \A i \in DOMAIN worker : worker[i].pc = "done"
                    /\ joined = threads
                    /\ cpc \in {"returned", "panicked"})

\* C19 witness: worker 1 has returned at its checkpoint while worker 0, with
\* nothing above min, is still hashing.
C19_Witness ==
    /\ DOMAIN worker = {0, 1}
    /\ worker[1].pc = "done"
    /\ worker[0].pc = "hash"
    /\ worker[0].best_difficulty <= min
    /\ worker[0].best_difficulty <= best
    /\ found_best_solution

\* The local best of w is what hashing its best_nonce gave, and w (worker i)
\* hashed that nonce.
BestIsHashed(i, w) ==
    /\ w.best_nonce \in hashed[i]
    /\ StartNonce(i) <= w.best_nonce
    /\ w.best_nonce <= w.nonce
    /\ hash_with_memory(proof.challenge, to_le_bytes(w.best_nonce)) = <<w.best_hash>>
    /\ Difficulty(w.best_hash) = w.best_difficulty

\* C20: a worker's best nonce, difficulty and hash go together: they are the
\* initial ones, or those of one nonce the worker hashed; and a result with
\* a difficulty above 0 carries a nonce some worker hashed successfully, with
\* the digest and the difficulty the hash function gave for it.
C20_ResultConsistent ==
    /\ \A i \in DOMAIN worker : worker[i].pc # "start" =>
          IF worker[i].best_difficulty = 0
          THEN /\ worker[i].best_nonce = StartNonce(i)
               /\ worker[i].best_hash = DefaultHash
          ELSE BestIsHashed(i, worker[i])
    /\ (Returned /\ ret.best_difficulty > 0) =>
          \E i \in DOMAIN worker :
             /\ ret.best_difficulty = worker[i].best_difficulty
             /\ ret.solution = SolutionNew(worker[i].best_hash.d,
                                           to_le_bytes(worker[i].best_nonce))
             /\ best_hash = worker[i].best_hash
             /\ FromLeBytes(ret.solution.n) = worker[i].best_nonce
             /\ BestIsHashed(i, worker[i])

\* C20 witness: a call with two workers returned the second nonce worker 0
\* hashed, whose difficulty is above that of its first.
C20_Witness ==
    /\ Returned
    /\ threads = 2
    /\ ret.best_difficulty > 1
    /\ FromLeBytes(ret.solution.n) = StartNonce(0) + 1
    /\ worker[0].best_nonce = StartNonce(0) + 1
    /\ \A k \in DOMAIN oracle : oracle[k] # Fail

====
